---- MODULE Spec2Model ----
(***************************************************************************)
(* Garmin Workout Builder (src/WorkoutBuilder.js): CSV text is split into  *)
(* lines, each data line is tokenized, turned into a workout document and  *)
(* posted to the workout service, one line at a time.                      *)
(*                                                                         *)
(* A JavaScript string is modelled as a sequence of one-character strings. *)
(***************************************************************************)
EXTENDS Integers, Sequences, FiniteSets, TLC

VARIABLES
    csvText,        \* argument of createWorkoutsFromCSVText
    pc,             \* position of the async function
    lines,          \* const lines (trimmed, non-empty)
    startIndex,     \* let startIndex
    isBikeWorkout,  \* let isBikeWorkout
    i,              \* loop variable of the lines loop (0-based)
    built,          \* workoutJSON objects assembled so far, in order
    requests,       \* fetch() calls issued so far, in order
    lastFetch,      \* how the latest fetch() has gone so far
    lookups,        \* results of the csrf-token lookups so far, in order
    skipped,        \* 0-based line indices skipped with "zu wenige Spalten"
    fnArgs,         \* arguments of a helper function called on its own
    fnResult        \* <<>> before the call, <<value>> after it

vars == <<csvText, pc, lines, startIndex, isBikeWorkout, i, built, requests,
          lastFetch, lookups, skipped, fnArgs, fnResult>>

----------------------------------------------------------------------------
(* Bounds of the model *)

MaxLines == 3
MaxPaddedLines == 2
MaxFieldLen == 4
MaxNameParts == 5

----------------------------------------------------------------------------
(* JavaScript string primitives *)

Quote == "\""
Delim == ";"

\* String.prototype.trim strips white space and line terminators
WhiteSpace == {" ", "\t", "\r", "\n"}

RECURSIVE TrimStart(_)
TrimStart(s) ==
    IF s = <<>> THEN s
    ELSE IF Head(s) \in WhiteSpace THEN TrimStart(Tail(s)) ELSE s

RECURSIVE TrimEnd(_)
TrimEnd(s) ==
    IF s = <<>> THEN s
    ELSE IF s[Len(s)] \in WhiteSpace THEN TrimEnd(SubSeq(s, 1, Len(s) - 1)) ELSE s

Trim(s) == TrimEnd(TrimStart(s))

UpperLetters == <<"A","B","C","D","E","F","G","H","I","J","K","L","M",
                  "N","O","P","Q","R","S","T","U","V","W","X","Y","Z">>
LowerLetters == <<"a","b","c","d","e","f","g","h","i","j","k","l","m",
                  "n","o","p","q","r","s","t","u","v","w","x","y","z">>

LowerChar(c) ==
    IF \E k \in 1..Len(UpperLetters) : UpperLetters[k] = c
    THEN LowerLetters[CHOOSE k \in 1..Len(UpperLetters) : UpperLetters[k] = c]
    ELSE c

ToLowerCase(s) == [k \in 1..Len(s) |-> LowerChar(s[k])]

\* String.prototype.includes
StrIncludes(s, sub) ==
    \E p \in 0..(Len(s) - Len(sub)) : SubSeq(s, p + 1, p + Len(sub)) = sub

\* Array.prototype.includes
ArrIncludes(arr, x) == \E k \in 1..Len(arr) : arr[k] = x

StartsWith(s, c) == Len(s) >= 1 /\ s[1] = c
EndsWith(s, c) == Len(s) >= 1 /\ s[Len(s)] = c

\* cell.replace(/""/g, '"'): leftmost, non-overlapping
RECURSIVE CollapseQuotes(_)
CollapseQuotes(s) ==
    IF Len(s) < 2 THEN s
    ELSE IF s[1] = Quote /\ s[2] = Quote
         THEN <<Quote>> \o CollapseQuotes(SubSeq(s, 3, Len(s)))
         ELSE <<s[1]>> \o CollapseQuotes(Tail(s))

----------------------------------------------------------------------------
(* parseCSVLine *)

\* the for loop of parseCSVLine; k is the 1-based position of line[i]
RECURSIVE ScanLine(_, _, _, _, _)
ScanLine(line, k, cur, inQuotes, res) ==
    IF k > Len(line) THEN Append(res, Trim(cur))
    ELSE LET ch == line[k] IN
         IF ch = Quote
         THEN IF inQuotes /\ k + 1 <= Len(line) /\ line[k + 1] = Quote
              THEN ScanLine(line, k + 2, Append(cur, Quote), inQuotes, res)
              ELSE ScanLine(line, k + 1, cur, ~inQuotes, res)
         ELSE IF ch = Delim /\ ~inQuotes
              THEN ScanLine(line, k + 1, <<>>, inQuotes, Append(res, Trim(cur)))
              ELSE ScanLine(line, k + 1, Append(cur, ch), inQuotes, res)

\* the callback of res.map
UnwrapCell(cell) ==
    IF StartsWith(cell, Quote) /\ EndsWith(cell, Quote)
    THEN CollapseQuotes(SubSeq(cell, 2, Len(cell) - 1))
    ELSE cell

parseCSVLine(line) ==
    LET res == ScanLine(line, 1, <<>>, FALSE, <<>>)
    IN  [k \in 1..Len(res) |-> UnwrapCell(res[k])]

----------------------------------------------------------------------------
(* Number <-> string conversions *)

DigitChars == <<"0","1","2","3","4","5","6","7","8","9",
                "a","b","c","d","e","f">>

\* value of c as a digit of the given radix, or -1 when it is none
DigitValue(c, radix) ==
    LET l == LowerChar(c) IN
    IF \E k \in 1..radix : DigitChars[k] = l
    THEN (CHOOSE k \in 1..radix : DigitChars[k] = l) - 1
    ELSE -1

\* the longest prefix of s made of digits of the radix, read as a number;
\* <<>> when that prefix is empty
RECURSIVE ReadDigits(_, _, _, _)
ReadDigits(s, radix, seen, acc) ==
    IF s # <<>> /\ DigitValue(Head(s), radix) >= 0
    THEN ReadDigits(Tail(s), radix, TRUE, acc * radix + DigitValue(Head(s), radix))
    ELSE IF seen THEN <<acc>> ELSE <<>>

\* NaN is <<>>, a number n is <<n>>
Signed(sign, mag) == IF mag = <<>> THEN <<>> ELSE <<sign * mag[1]>>

\* a leading 0x or 0X selects radix 16
ParseUnsigned(S) ==
    IF Len(S) >= 2 /\ S[1] = "0" /\ S[2] \in {"x", "X"}
    THEN ReadDigits(SubSeq(S, 3, Len(S)), 16, FALSE, 0)
    ELSE ReadDigits(S, 10, FALSE, 0)

ParseSigned(S) ==
    IF S # <<>> /\ Head(S) = "-" THEN Signed(-1, ParseUnsigned(Tail(S)))
    ELSE IF S # <<>> /\ Head(S) = "+" THEN Signed(1, ParseUnsigned(Tail(S)))
         ELSE Signed(1, ParseUnsigned(S))

\* parseInt(string) without a radix: leading white space, a sign, a prefix,
\* then the longest run of digits
parseInt(string) == ParseSigned(TrimStart(string))

\* n || 0
OrZero(n) == IF n = <<>> \/ n[1] = 0 THEN 0 ELSE n[1]

\* parseInt(x) || 0
ParseIntOrZero(string) == OrZero(parseInt(string))

\* a non-negative number in a template literal
RECURSIVE NumToString(_)
NumToString(n) ==
    IF n < 10 THEN <<DigitChars[n + 1]>>
    ELSE NumToString(n \div 10) \o <<DigitChars[(n % 10) + 1]>>

----------------------------------------------------------------------------
(* getZoneNumberFromName, buildTargetForStep *)

Null == "null"

WordChars ==
    {UpperLetters[k] : k \in 1..26} \cup {LowerLetters[k] : k \in 1..26}
    \cup {DigitChars[k] : k \in 1..10} \cup {"_"}

IsWordAt(s, p) == p >= 1 /\ p <= Len(s) /\ s[p] \in WordChars

\* \b between s[p-1] and s[p]
WordBoundary(s, p) == IsWordAt(s, p - 1) # IsWordAt(s, p)

\* \s* is greedy and a digit is no white space: skip all of it
RECURSIVE SkipSpaces(_, _)
SkipSpaces(s, p) ==
    IF p <= Len(s) /\ s[p] \in WhiteSpace THEN SkipSpaces(s, p + 1) ELSE p

\* the pattern without its closing \b
ZoneDigitNoBoundary(s, q) == TRUE

\* \s*([1-9])\b from position p on: <<digit>> or <<>>
ZoneDigitBoundary(s, q) == WordBoundary(s, q + 1)

ZoneDigitAt(s, q) ==
    IF q <= Len(s) /\ DigitValue(s[q], 10) >= 1 /\ ZoneDigitBoundary(s, q)
    THEN <<DigitValue(s[q], 10)>>
    ELSE <<>>

ZoneTail(s, p) == ZoneDigitAt(s, SkipSpaces(s, p))

\* the literal at p under the i flag
LiteralAt(s, p, lit) ==
    /\ p + Len(lit) - 1 <= Len(s)
    /\ ToLowerCase(SubSeq(s, p, p + Len(lit) - 1)) = lit

\* /\b(?:z|zone)\s*([1-9])\b/i tried at position p: <<digit>> or <<>>
ZoneMatchAt(s, p) ==
    IF ~WordBoundary(s, p) THEN <<>>
    ELSE IF LiteralAt(s, p, <<"z">>) /\ ZoneTail(s, p + 1) # <<>>
         THEN ZoneTail(s, p + 1)
         ELSE IF LiteralAt(s, p, <<"z","o","n","e">>)
              THEN ZoneTail(s, p + 4)
              ELSE <<>>

\* String.prototype.match without the g flag: the leftmost match
RECURSIVE ZoneMatchFrom(_, _)
ZoneMatchFrom(s, p) ==
    IF p > Len(s) THEN <<>>
    ELSE IF ZoneMatchAt(s, p) # <<>> THEN ZoneMatchAt(s, p)
         ELSE ZoneMatchFrom(s, p + 1)

\* null is <<>>, a zone number n is <<n>>
getZoneNumberFromName(name) ==
    IF name = <<>> THEN <<>> ELSE ZoneMatchFrom(name, 1)

NoTargetType ==
    [workoutTargetTypeId |-> 1, workoutTargetTypeKey |-> "no.target", displayOrder |-> 1]

PowerZoneType ==
    [workoutTargetTypeId |-> 2, workoutTargetTypeKey |-> "power.zone", displayOrder |-> 2]

buildTargetForStep(name, isBike) ==
    IF ~isBike THEN [targetType |-> NoTargetType]
    ELSE LET zone == getZoneNumberFromName(name) IN
         IF zone # <<>>
         THEN [targetType |-> PowerZoneType, zoneNumber |-> zone[1],
               targetValueOne |-> Null, targetValueTwo |-> Null,
               targetValueUnit |-> Null]
         ELSE [targetType |-> NoTargetType]

\* ...(target.zoneNumber != null ? {zoneNumber, targetValueOne, ...} : {})
ZoneSpread(target) ==
    IF "zoneNumber" \in DOMAIN target
    THEN [zoneNumber |-> target.zoneNumber,
          targetValueOne |-> target.targetValueOne,
          targetValueTwo |-> target.targetValueTwo,
          targetValueUnit |-> target.targetValueUnit]
    ELSE <<>>

----------------------------------------------------------------------------
(* The step objects *)

TimeCondition ==
    [conditionTypeId |-> 2, conditionTypeKey |-> "time", displayOrder |-> 2,
     displayable |-> TRUE]

LapButtonCondition ==
    [conditionTypeId |-> 1, conditionTypeKey |-> "lap.button", displayOrder |-> 1,
     displayable |-> TRUE]

WarmupStep(id, order, warmupSec, isBike) ==
    LET nameWarm == <<"Z","1">>
        targetWarm == buildTargetForStep(nameWarm, isBike)
    IN  [stepId |-> id, stepOrder |-> order,
         stepType |-> [stepTypeId |-> 1, stepTypeKey |-> "warmup", displayOrder |-> 1],
         type |-> "ExecutableStepDTO",
         endCondition |-> TimeCondition,
         endConditionValue |-> warmupSec,
         description |-> nameWarm,
         stepAudioNote |-> Null,
         targetType |-> targetWarm.targetType] @@ ZoneSpread(targetWarm)

IntervalChild(id, order, name, durationSec, isBike) ==
    LET targetOn == buildTargetForStep(name, isBike)
    IN  [stepId |-> id, stepOrder |-> order,
         stepType |-> [stepTypeId |-> 3, stepTypeKey |-> "interval", displayOrder |-> 3],
         type |-> "ExecutableStepDTO",
         endCondition |-> TimeCondition,
         endConditionValue |-> durationSec,
         description |-> name,
         stepAudioNote |-> Null,
         childStepId |-> id,
         targetType |-> targetOn.targetType] @@ ZoneSpread(targetOn)

\* without the pauseSec > 0 test
RecoveryAlwaysTimed(pauseSec) ==
    [endCondition |-> TimeCondition, endConditionValue |-> pauseSec]

RecoveryEndCondition(pauseSec) ==
    IF pauseSec > 0
    THEN [endCondition |-> TimeCondition, endConditionValue |-> pauseSec]
    ELSE [endCondition |-> LapButtonCondition, endConditionValue |-> 0]

RecoveryChild(id, order, child1StepId, pauseSec, isBike) ==
    LET nameRec == <<"Z","1">>
        targetRec == buildTargetForStep(nameRec, isBike)
        end == RecoveryEndCondition(pauseSec)
    IN  [stepId |-> id, stepOrder |-> order,
         stepType |-> [stepTypeId |-> 4, stepTypeKey |-> "recovery", displayOrder |-> 4],
         type |-> "ExecutableStepDTO",
         endCondition |-> end.endCondition,
         endConditionValue |-> end.endConditionValue,
         description |-> nameRec,
         stepAudioNote |-> Null,
         childStepId |-> child1StepId,
         preferredEndConditionUnit |-> Null,
         targetType |-> targetRec.targetType] @@ ZoneSpread(targetRec)

RepeatGroupOf(repeatStepId, repeatStepOrder, childSteps, repeats) ==
        [stepId |-> repeatStepId, stepOrder |-> repeatStepOrder,
         stepType |-> [stepTypeId |-> 6, stepTypeKey |-> "repeat", displayOrder |-> 6],
         numberOfIterations |-> repeats,
         smartRepeat |-> FALSE,
         childStepId |-> childSteps[1].stepId,
         workoutSteps |-> childSteps,
         endCondition |-> [conditionTypeId |-> 7, conditionTypeKey |-> "iterations",
                           displayOrder |-> 7, displayable |-> FALSE],
         type |-> "RepeatGroupDTO",
         skipLastRestStep |-> TRUE]

\* the ids and orders of the repeat branch: the group takes the next pair, then
\* child 1, then child 2, which refers to child 1's id
RepeatChildren(stepId, stepOrder, name, durationSec, pauseSec, isBike) ==
    <<IntervalChild(stepId + 1, stepOrder + 1, name, durationSec, isBike),
      RecoveryChild(stepId + 2, stepOrder + 2, stepId + 1, pauseSec, isBike)>>

\* the group numbered after its children instead of before them
RepeatGroupNumberedLast(stepId, stepOrder, name, durationSec, pauseSec, repeats, isBike) ==
    RepeatGroupOf(stepId + 2, stepOrder + 2,
                  RepeatChildren(stepId - 1, stepOrder - 1, name, durationSec,
                                 pauseSec, isBike),
                  repeats)

RepeatGroup(stepId, stepOrder, name, durationSec, pauseSec, repeats, isBike) ==
    RepeatGroupOf(stepId, stepOrder,
                  RepeatChildren(stepId, stepOrder, name, durationSec, pauseSec, isBike),
                  repeats)

SteadyStep(id, order, name, durationSec, isBike) ==
    LET target == buildTargetForStep(name, isBike)
    IN  [stepId |-> id, stepOrder |-> order,
         stepType |-> [stepTypeId |-> 3, stepTypeKey |-> "interval", displayOrder |-> 3],
         type |-> "ExecutableStepDTO",
         endCondition |-> TimeCondition,
         endConditionValue |-> durationSec,
         description |-> name,
         stepAudioNote |-> Null,
         targetType |-> target.targetType] @@ ZoneSpread(target)

\* without the cooldownSec > 0 test
CooldownAlwaysTimed(cooldownSec) == TimeCondition

CooldownEndCondition(cooldownSec) ==
    IF cooldownSec > 0
    THEN TimeCondition
    ELSE [conditionTypeId |-> 1, conditionTypeKey |-> "lap.button", displayOrder |-> 2,
          displayable |-> TRUE]

CooldownEndConditionValue(cooldownSec) == IF cooldownSec > 0 THEN cooldownSec ELSE 0

CooldownStep(id, order, cooldownSec, isBike) ==
    LET nameCool == <<"Z","1">>
        targetCool == buildTargetForStep(nameCool, isBike)
    IN  [stepId |-> id, stepOrder |-> order,
         stepType |-> [stepTypeId |-> 2, stepTypeKey |-> "cooldown", displayOrder |-> 2],
         type |-> "ExecutableStepDTO",
         endCondition |-> CooldownEndCondition(cooldownSec),
         endConditionValue |-> CooldownEndConditionValue(cooldownSec),
         description |-> nameCool,
         stepAudioNote |-> Null,
         targetType |-> targetCool.targetType] @@ ZoneSpread(targetCool)

----------------------------------------------------------------------------
(* One data row: the body of the lines loop up to the assembled workoutJSON *)

\* cols[k] with the 0-based index of the source
At(cols, k) == cols[k + 1]

\* JavaScript's a || b on strings: the empty string is falsy
StrOr(a, b) == IF a = <<>> THEN b ELSE a

\* the state threaded through one row: let stepId, stepOrder, totalPlannedSecs
\* and const workoutSteps
NewBuilder ==
    [stepId |-> 1, stepOrder |-> 1, workoutSteps |-> <<>>, totalPlannedSecs |-> 0]

AddWarmup(b, warmupSec, isBike) ==
    IF warmupSec > 0
    THEN [stepId |-> b.stepId + 1, stepOrder |-> b.stepOrder + 1,
          workoutSteps |-> Append(b.workoutSteps,
                                  WarmupStep(b.stepId, b.stepOrder, warmupSec, isBike)),
          totalPlannedSecs |-> b.totalPlannedSecs + warmupSec]
    ELSE b

\* if (base + 3 >= cols.length) ... continue
SegmentIncomplete(cols, base) == base + 3 >= Len(cols)

\* let perIter
PerIter(durationSec, pauseSec) == durationSec + (IF pauseSec > 0 THEN pauseSec ELSE 0)

AddRepeat(b, name, durationSec, pauseSec, repeats, isBike) ==
    [stepId |-> b.stepId + 3, stepOrder |-> b.stepOrder + 3,
     workoutSteps |-> Append(b.workoutSteps,
                             RepeatGroup(b.stepId, b.stepOrder, name, durationSec,
                                         pauseSec, repeats, isBike)),
     totalPlannedSecs |-> b.totalPlannedSecs + repeats * PerIter(durationSec, pauseSec)]

AddSteady(b, name, durationSec, isBike) ==
    [stepId |-> b.stepId + 1, stepOrder |-> b.stepOrder + 1,
     workoutSteps |-> Append(b.workoutSteps,
                             SteadyStep(b.stepId, b.stepOrder, name, durationSec, isBike)),
     totalPlannedSecs |-> b.totalPlannedSecs + durationSec]

\* if (repeats > 0) ... else ...
AddParsedSegment(b, name, durationSec, pauseSec, repeats, isBike) ==
    IF repeats > 0
    THEN AddRepeat(b, name, durationSec, pauseSec, repeats, isBike)
    ELSE AddSteady(b, name, durationSec, isBike)

SegmentAt(b, cols, s, base, isBike) ==
    IF SegmentIncomplete(cols, base) THEN b
    ELSE AddParsedSegment(b,
            StrOr(At(cols, base), <<"S","t","e","p">> \o NumToString(s + 1)),
            ParseIntOrZero(At(cols, base + 1)),
            ParseIntOrZero(At(cols, base + 2)),
            ParseIntOrZero(At(cols, base + 3)),
            isBike)

\* one pass of the for (s ...) loop
AddSegment(b, cols, s, isBike) == SegmentAt(b, cols, s, 4 + s * 4, isBike)

RECURSIVE AddSegments(_, _, _, _, _)
AddSegments(b, cols, s, numSegments, isBike) ==
    IF s < numSegments
    THEN AddSegments(AddSegment(b, cols, s, isBike), cols, s + 1, numSegments, isBike)
    ELSE b

\* the cooldown guarded the way the warmup is
AddCooldownIfPositive(b, cooldownSec, isBike) ==
    IF cooldownSec > 0
    THEN [stepId |-> b.stepId + 1, stepOrder |-> b.stepOrder + 1,
          workoutSteps |-> Append(b.workoutSteps,
                                  CooldownStep(b.stepId, b.stepOrder, cooldownSec, isBike)),
          totalPlannedSecs |-> b.totalPlannedSecs + cooldownSec]
    ELSE b

AddCooldown(b, cooldownSec, isBike) ==
    [stepId |-> b.stepId + 1, stepOrder |-> b.stepOrder + 1,
     workoutSteps |-> Append(b.workoutSteps,
                             CooldownStep(b.stepId, b.stepOrder, cooldownSec, isBike)),
     totalPlannedSecs |-> b.totalPlannedSecs + cooldownSec]

\* the default speeds, in cm/s (the source has 2.94 and 6.94 m/s)
DEFAULT_SPEED_RUN_MPS == 294
DEFAULT_SPEED_BIKE_MPS == 694

\* const workoutJSON = {...}
WorkoutJSON(workoutName, workoutSteps, totalPlannedSecs, sportType, avgTrainingSpeed) ==
    [sportType |-> sportType,
     subSportType |-> Null,
     workoutName |-> workoutName,
     avgTrainingSpeed |-> avgTrainingSpeed,
     estimatedDurationInSecs |-> totalPlannedSecs,
     estimatedDistanceInMeters |-> totalPlannedSecs * avgTrainingSpeed,
     workoutSegments |-> <<[segmentOrder |-> 1,
                            sportType |-> sportType,
                            workoutSteps |-> workoutSteps]>>,
     estimateType |-> "DISTANCE_ESTIMATED",
     isWheelchair |-> FALSE]

SportType(isBike) ==
    [sportTypeId |-> IF isBike THEN 2 ELSE 1,
     sportTypeKey |-> IF isBike THEN "cycling" ELSE "running",
     displayOrder |-> 1]

AvgTrainingSpeed(isBike) ==
    IF isBike THEN DEFAULT_SPEED_BIKE_MPS ELSE DEFAULT_SPEED_RUN_MPS

\* warmup, the segments, cooldown, on fresh counters
BuildSteps(cols, numSegments, warmupSec, cooldownSec, isBike) ==
    AddCooldown(AddSegments(AddWarmup(NewBuilder, warmupSec, isBike),
                            cols, 0, numSegments, isBike),
                cooldownSec, isBike)

Assemble(workoutName, b, isBike) ==
    WorkoutJSON(workoutName, b.workoutSteps, b.totalPlannedSecs,
                SportType(isBike), AvgTrainingSpeed(isBike))

\* cols: the tokenized line, idx: the loop variable i, isBike: isBikeWorkout
BuildWorkout(cols, idx, isBike) ==
    Assemble(StrOr(At(cols, 0), <<"W","o","r","k","o","u","t","-">> \o NumToString(idx)),
             BuildSteps(cols,
                        ParseIntOrZero(At(cols, 1)),
                        ParseIntOrZero(At(cols, 2)),
                        ParseIntOrZero(At(cols, 3)),
                        isBike),
             isBike)

----------------------------------------------------------------------------
(* createWorkoutsFromCSVText *)

\* csvText.split(/\r?\n/): the text from index `from` on, cut at every line feed,
\* a carriage return right before the line feed belonging to the separator
RECURSIVE SplitText(_, _)
SplitText(text, from) ==
    LET feeds == {k \in from..Len(text) : text[k] = "\n"}
    IN  IF feeds = {} THEN <<SubSeq(text, from, Len(text))>>
        ELSE LET nl == CHOOSE k \in feeds : \A m \in feeds : k <= m
                 last == IF nl > from /\ text[nl - 1] = "\r" THEN nl - 2 ELSE nl - 1
             IN  <<SubSeq(text, from, last)>> \o SplitText(text, nl + 1)

\* .map(l => l.trim()).filter(l => l.length > 0)
ReadLines(text) ==
    LET raw == SplitText(text, 1)
        trimmed == [k \in 1..Len(raw) |-> Trim(raw[k])]
    IN  SelectSeq(trimmed, LAMBDA l : Len(l) > 0)

LowerCols(line) ==
    LET cols == parseCSVLine(line) IN [k \in 1..Len(cols) |-> ToLowerCase(cols[k])]

\* the header told by its first field alone
IsHeaderRowByName(firstCols) == StrIncludes(firstCols[1], <<"n","a","m","e">>)

IsHeaderRow(firstCols) ==
    /\ StrIncludes(firstCols[1], <<"n","a","m","e">>)
    /\ ArrIncludes(firstCols, <<"a","b","s","c","h","n","i","t","t","e">>)

IsBikeRow(firstCols) == StrIncludes(firstCols[1], <<"b","i","k","e">>)

\* from the call to the head of the lines loop; lines[startIndex] is undefined
\* when the header is the only line, and parseCSVLine(undefined) throws
Start ==
    /\ pc = "start"
    /\ \E ls \in {ReadLines(csvText)} :
       /\ lines' = ls
       /\ IF Len(ls) = 0
          THEN /\ pc' = "returned"
               /\ UNCHANGED <<startIndex, isBikeWorkout, i>>
          ELSE \E afterHeader \in {IF IsHeaderRow(LowerCols(ls[1])) THEN 1 ELSE 0} :
               IF afterHeader >= Len(ls)
               THEN /\ pc' = "rejected"
                    /\ startIndex' = afterHeader
                    /\ UNCHANGED <<isBikeWorkout, i>>
               ELSE \E bike \in {IsBikeRow(LowerCols(ls[afterHeader + 1]))} :
                    /\ startIndex' = (IF bike THEN afterHeader + 1 ELSE afterHeader)
                    /\ isBikeWorkout' = bike
                    /\ i' = startIndex'
                    /\ pc' = "loop"
    /\ UNCHANGED <<csvText, built, requests, lastFetch, lookups, skipped, fnArgs,
                   fnResult>>

\* before the first fetch()
NoFetch == [outcome |-> "none", delayed |-> FALSE]

\* i < lines.length fails
ExitLoop ==
    /\ pc = "loop"
    /\ ~(i < Len(lines))
    /\ pc' = "done"
    /\ UNCHANGED <<csvText, lines, startIndex, isBikeWorkout, i, built, requests,
                   lastFetch, lookups, skipped, fnArgs, fnResult>>

TooFewColumns(cols) == Len(cols) < 4

\* cols.length < 4: warn and continue
SkipRow ==
    /\ pc = "loop"
    /\ i < Len(lines)
    /\ TooFewColumns(parseCSVLine(lines[i + 1]))
    /\ skipped' = skipped \cup {i}
    /\ i' = i + 1
    /\ UNCHANGED <<csvText, pc, lines, startIndex, isBikeWorkout, built, requests,
                   lastFetch, lookups, fnArgs, fnResult>>

\* what document.querySelector('meta[name="csrf-token"]') can give: no such
\* element, one with an empty content, one with a token
NoMeta == "no meta"
MetaLookups == {NoMeta, "", "token"}

CsrfTokenOf(tokenMeta) == IF tokenMeta # NoMeta THEN tokenMeta ELSE Null

\* !csrfToken
TokenMissing(csrfToken) == csrfToken = Null \/ csrfToken = ""

\* continue instead of return
MissingTokenContinue ==
    /\ pc' = "loop"
    /\ i' = i + 1
    /\ UNCHANGED <<requests, lastFetch>>

\* console.error(...); return
MissingTokenStop ==
    /\ pc' = "returned"
    /\ UNCHANGED <<requests, lastFetch, i>>

\* fetch(...) is called and awaited
IssueFetch(csrfToken, workoutJSON) ==
    /\ requests' = Append(requests, [line |-> i, csrfToken |-> csrfToken,
                                     body |-> workoutJSON])
    /\ lastFetch' = [outcome |-> "pending", delayed |-> FALSE]
    /\ pc' = "fetching"
    /\ UNCHANGED i

\* a row with at least 4 columns: the document is assembled, the token looked
\* up, and the POST issued unless the token is missing
BuildRow ==
    /\ pc = "loop"
    /\ i < Len(lines)
    /\ \E cols \in {parseCSVLine(lines[i + 1])} :
       /\ ~TooFewColumns(cols)
       /\ \E workoutJSON \in {BuildWorkout(cols, i, isBikeWorkout)} :
          /\ built' = Append(built, [line |-> i, cols |-> cols,
                                     workoutJSON |-> workoutJSON])
          /\ \E tokenMeta \in MetaLookups :
             \E csrfToken \in {CsrfTokenOf(tokenMeta)} :
                /\ lookups' = Append(lookups, [line |-> i, csrfToken |-> csrfToken])
                /\ IF TokenMissing(csrfToken)
                   THEN MissingTokenStop
                   ELSE IssueFetch(csrfToken, workoutJSON)
    /\ UNCHANGED <<csvText, lines, startIndex, isBikeWorkout, skipped, fnArgs, fnResult>>

\* how the awaited fetch / resp.text() can end: resp.ok, !resp.ok, or a throw
\* caught by the inner catch
FetchOutcomes == {"ok", "server error", "threw"}

\* a failed POST ends the run
AfterFetchStopOnFailure(outcome) ==
    pc' = (IF outcome = "ok" THEN "sleeping" ELSE "returned")

\* all three outcomes only log and fall through to the delay
AfterFetch(outcome) == pc' = "sleeping"

FetchSettles ==
    /\ pc = "fetching"
    /\ \E outcome \in FetchOutcomes :
          /\ lastFetch' = [lastFetch EXCEPT !.outcome = outcome]
          /\ AfterFetch(outcome)
    /\ UNCHANGED <<csvText, lines, startIndex, isBikeWorkout, i, built, requests,
                   lookups, skipped, fnArgs, fnResult>>

\* await sleep(400) resolves; the loop goes on with i++
SleepDone ==
    /\ pc = "sleeping"
    /\ lastFetch' = [lastFetch EXCEPT !.delayed = TRUE]
    /\ i' = i + 1
    /\ pc' = "loop"
    /\ UNCHANGED <<csvText, lines, startIndex, isBikeWorkout, built, requests,
                   lookups, skipped, fnArgs, fnResult>>

----------------------------------------------------------------------------
(* Bounded inputs for createWorkoutsFromCSVText *)

RECURSIVE JoinWith(_, _)
JoinWith(parts, sep) ==
    IF parts = <<>> THEN <<>>
    ELSE IF Len(parts) = 1 THEN parts[1]
         ELSE parts[1] \o sep \o JoinWith(Tail(parts), sep)

Row(fields) == JoinWith(fields, <<Delim>>)

sName == <<"N","a","m","e">>
sAbschnitte == <<"A","b","s","c","h","n","i","t","t","e">>
sSegments == <<"S","e","g","m","e","n","t","s">>
sWarmup == <<"W","a","r","m","u","p">>
sCooldown == <<"C","o","o","l","d","o","w","n">>
sBike == <<"B","i","k","e">>
sRun == <<"R","u","n">>
sZ2 == <<"Z","2">>
sZone3Push == <<"Z","o","n","e","3"," ","P","u","s","h">>
sQuotedAB == <<Quote,"a",";","b",Quote>>

HeaderLineDE == Row(<<sName, sAbschnitte, sWarmup, sCooldown>>)
HeaderLineEN == Row(<<sName, sSegments, sWarmup, sCooldown>>)
MarkerLine == sBike
ShortLine == Row(<<<<"x">>, <<"1">>, <<"2">>>>)
BlankLine == <<" ", " ">>
\* warmup, a steady step, a repeat group with a timed pause, lap-button cooldown
RowLineA == Row(<<sRun, <<"2">>, <<"5">>, <<"0">>,
                  sZone3Push, <<"6">>, <<"0">>, <<"0">>,
                  sZ2, <<"4">>, <<"3">>, <<"2">>>>)
\* no name, no warmup, a negative cooldown, a quoted segment name holding the
\* delimiter, a non-numeric duration, a repeat group with a lap-button pause
RowLineB == Row(<<<<>>, <<"1">>, <<"x">>, <<"-","3">>,
                  sQuotedAB, <<"x">>, <<"0">>, <<"1">>>>)

LinePool == {HeaderLineDE, HeaderLineEN, MarkerLine, ShortLine, RowLineA, RowLineB}

RECURSIVE SeqsUpTo(_, _)
SeqsUpTo(S, n) ==
    IF n = 0 THEN {<<>>}
    ELSE LET shorter == SeqsUpTo(S, n - 1)
         IN  shorter \cup {Append(q, x) : q \in shorter, x \in S}

\* texts of up to MaxLines lines of the pool
PoolTexts == {JoinWith(ls, <<"\n">>) : ls \in SeqsUpTo(LinePool, MaxLines)}

\* the same with CR LF line ends, padded lines and blank lines around them
RECURSIVE Padded(_)
Padded(ls) ==
    IF ls = <<>> THEN BlankLine
    ELSE BlankLine \o <<"\r", "\n", "\t">> \o Head(ls) \o <<" ", "\r", "\n", "\n">>
         \o Padded(Tail(ls))

PaddedTexts == {Padded(ls) : ls \in SeqsUpTo(LinePool, MaxPaddedLines)}

\* one data row with two segment blocks, every numeric field varied, cut after
\* 4, 7, 8, 11 or 12 fields
NumSegmentFields == {<<"1">>, <<"2">>, <<"3">>}
WarmupFields == {<<"0">>, <<"5">>, <<"-","5">>}
CooldownFields == {<<"7">>, <<"-","3">>, <<"x">>}
DurationFields == {<<"4">>, <<"x">>}
PauseFields == {<<"0">>, <<"3">>, <<"-","2">>}
RepeatFields == {<<"0">>, <<"2">>, <<"-","1">>}
RowCuts == {4, 7, 8, 11, 12}

VariedRows ==
    {Row(SubSeq(<<sRun, n, w, c, sZ2, d, p, r, sZone3Push, <<"6">>, p2, <<"3">>>>, 1, cut)) :
        n \in NumSegmentFields, w \in WarmupFields, c \in CooldownFields,
        d \in DurationFields, p \in PauseFields, r \in RepeatFields,
        p2 \in {<<"0">>, <<"1">>}, cut \in RowCuts}

Init ==
    /\ csvText \in PoolTexts \cup PaddedTexts \cup VariedRows
    /\ pc = "start"
    /\ lines = <<>>
    /\ startIndex = 0
    /\ isBikeWorkout = FALSE
    /\ i = 0
    /\ built = <<>>
    /\ requests = <<>>
    /\ lastFetch = NoFetch
    /\ lookups = <<>>
    /\ skipped = {}
    /\ fnArgs = <<>>
    /\ fnResult = <<>>

Next ==
    \/ Start
    \/ ExitLoop
    \/ SkipRow
    \/ BuildRow
    \/ FetchSettles
    \/ SleepDone

Spec == Init /\ [][Next]_vars

----------------------------------------------------------------------------
(* Bounded inputs for parseCSVLine called on its own *)

RECURSIVE StringsUpTo(_, _)
StringsUpTo(alphabet, n) ==
    IF n = 0 THEN {<<>>}
    ELSE LET shorter == StringsUpTo(alphabet, n - 1)
         IN  shorter \cup {Append(s, c) : s \in shorter, c \in alphabet}

FieldAlphabet == {Quote, Delim, " ", "a"}

\* a field written the CSV way: wrapped in quotes, inner quotes doubled
RECURSIVE DoubleQuotes(_)
DoubleQuotes(v) ==
    IF v = <<>> THEN <<>>
    ELSE (IF Head(v) = Quote THEN <<Quote, Quote>> ELSE <<Head(v)>>)
         \o DoubleQuotes(Tail(v))

QuotedField(v) == <<Quote>> \o DoubleQuotes(v) \o <<Quote>>

Idle ==
    /\ csvText = <<>>
    /\ pc = "idle"
    /\ lines = <<>>
    /\ startIndex = 0
    /\ isBikeWorkout = FALSE
    /\ i = 0
    /\ built = <<>>
    /\ requests = <<>>
    /\ lastFetch = NoFetch
    /\ lookups = <<>>
    /\ skipped = {}

pipelineVars == <<csvText, pc, lines, startIndex, isBikeWorkout, i, built,
                  requests, lastFetch, lookups, skipped>>

InitTokenizer ==
    /\ Idle
    /\ \E v \in StringsUpTo(FieldAlphabet, MaxFieldLen) :
           fnArgs = [fn |-> "parseCSVLine", field |-> v, line |-> QuotedField(v)]
    /\ fnResult = <<>>

CallParseCSVLine ==
    /\ fnArgs.fn = "parseCSVLine"
    /\ fnResult = <<>>
    /\ fnResult' = <<parseCSVLine(fnArgs.line)>>
    /\ UNCHANGED <<pipelineVars, fnArgs>>

NextTokenizer == CallParseCSVLine

SpecTokenizer == InitTokenizer /\ [][NextTokenizer]_vars

----------------------------------------------------------------------------
(* Bounded inputs for the step constructors called on their own *)

\* names are built from up to MaxNameParts of these pieces
NameParts == {<<"z">>, <<"Z","o","N","e">>, <<"1">>, <<"9">>, <<"0">>, <<" ">>,
              <<"-">>}

RECURSIVE NamesUpTo(_)
NamesUpTo(n) ==
    IF n = 0 THEN {<<>>}
    ELSE {s \o part : s \in NamesUpTo(n - 1), part \in NameParts \cup {<<>>}}

NamedStepCalls ==
    [fn : {"SteadyStep", "IntervalChild"}, name : NamesUpTo(MaxNameParts),
     isBike : BOOLEAN]

FixedStepCalls ==
    [fn : {"WarmupStep", "RecoveryChild", "CooldownStep"}, isBike : BOOLEAN]

InitSteps ==
    /\ Idle
    /\ fnArgs \in NamedStepCalls \cup FixedStepCalls
    /\ fnResult = <<>>

\* a segment name reaches SteadyStep and IntervalChild as cols[base] || StepN,
\* which is never empty
CallSteadyStep ==
    /\ fnArgs.fn = "SteadyStep"
    /\ fnResult = <<>>
    /\ fnResult' = <<SteadyStep(1, 1, StrOr(fnArgs.name, <<"S","t","e","p","1">>),
                                60, fnArgs.isBike)>>
    /\ UNCHANGED <<pipelineVars, fnArgs>>

CallIntervalChild ==
    /\ fnArgs.fn = "IntervalChild"
    /\ fnResult = <<>>
    /\ fnResult' = <<IntervalChild(2, 2, StrOr(fnArgs.name, <<"S","t","e","p","1">>),
                                   60, fnArgs.isBike)>>
    /\ UNCHANGED <<pipelineVars, fnArgs>>

CallWarmupStep ==
    /\ fnArgs.fn = "WarmupStep"
    /\ fnResult = <<>>
    /\ fnResult' = <<WarmupStep(1, 1, 60, fnArgs.isBike)>>
    /\ UNCHANGED <<pipelineVars, fnArgs>>

CallRecoveryChild ==
    /\ fnArgs.fn = "RecoveryChild"
    /\ fnResult = <<>>
    /\ fnResult' = <<RecoveryChild(3, 3, 2, 30, fnArgs.isBike)>>
    /\ UNCHANGED <<pipelineVars, fnArgs>>

CallCooldownStep ==
    /\ fnArgs.fn = "CooldownStep"
    /\ fnResult = <<>>
    /\ fnResult' = <<CooldownStep(1, 1, 60, fnArgs.isBike)>>
    /\ UNCHANGED <<pipelineVars, fnArgs>>

NextSteps ==
    \/ CallSteadyStep
    \/ CallIntervalChild
    \/ CallWarmupStep
    \/ CallRecoveryChild
    \/ CallCooldownStep

SpecSteps == InitSteps /\ [][NextSteps]_vars

----------------------------------------------------------------------------
(* C5: target resolution *)

AsciiWord(c) ==
    c \in {"z","Z","o","O","n","N","e","E","x","S","t","p","0","1","2","3","4",
           "5","6","7","8","9","_"}

\* the name holds, from position p on and as a whole word, "z" or "zone" in
\* any case, then white space or nothing, then the digit at position q
ZoneWordAt(name, p, q) ==
    /\ p = 1 \/ ~AsciiWord(name[p - 1])
    /\ name[p] \in {"z", "Z"}
    /\ \E w \in {p + 1, p + 4} :
          /\ w <= q
          /\ w = p + 4 => /\ name[p + 1] \in {"o", "O"}
                          /\ name[p + 2] \in {"n", "N"}
                          /\ name[p + 3] \in {"e", "E"}
          /\ \A k \in w..(q - 1) : name[k] = " "
    /\ name[q] \in {"1","2","3","4","5","6","7","8","9"}
    /\ q = Len(name) \/ ~AsciiWord(name[q + 1])

ZoneWords(name) ==
    {pq \in (1..Len(name)) \X (1..Len(name)) : ZoneWordAt(name, pq[1], pq[2])}

DigitOf(c) == CHOOSE d \in 1..9 : <<"1","2","3","4","5","6","7","8","9">>[d] = c

\* what the claim asks of a step with this description in this sport mode
TargetAsClaimed(step, isBike) ==
    IF isBike /\ ZoneWords(step.description) # {}
    THEN /\ step.targetType.workoutTargetTypeId = 2
         /\ "zoneNumber" \in DOMAIN step
         /\ \E pq \in ZoneWords(step.description) :
               /\ \A other \in ZoneWords(step.description) : pq[1] <= other[1]
               /\ step.zoneNumber = DigitOf(step.description[pq[2]])
    ELSE /\ step.targetType.workoutTargetTypeId = 1
         /\ "zoneNumber" \notin DOMAIN step

\* C5: in running mode every step has no-target and no zone number; in cycling
\* mode a step has power-zone d exactly when its name holds, as a whole word and
\* in any case, "z" or "zone", optional white space and one digit d of 1..9
\* (the leftmost such word decides d), and no-target otherwise; the fixed "Z1"
\* steps get power zone 1 in cycling mode.
TargetResolution ==
    fnResult # <<>> =>
        /\ TargetAsClaimed(fnResult[1], fnArgs.isBike)
        /\ fnArgs.fn \in {"WarmupStep", "RecoveryChild", "CooldownStep"} =>
              /\ fnResult[1].description = <<"Z", "1">>
              /\ fnArgs.isBike => fnResult[1].zoneNumber = 1
        /\ fnArgs.fn \in {"SteadyStep", "IntervalChild"} /\ fnArgs.name # <<>> =>
              fnResult[1].description = fnArgs.name

\* a cycling step whose name holds two zone words with different digits
TargetResolutionWitness ==
    /\ fnResult # <<>>
    /\ fnArgs.fn = "SteadyStep"
    /\ fnArgs.isBike
    /\ fnArgs.name = <<"z","9"," ","z","1">>
    /\ fnResult[1].zoneNumber = 9

----------------------------------------------------------------------------
(* C9: tokenizer round trip *)

\* C9: a field written as a quoted field (wrapped in double quotes, inner
\* double quotes doubled) tokenizes back to exactly one field equal to it.
TokenizerRoundTrip ==
    fnResult # <<>> => fnResult[1] = <<fnArgs.field>>

----------------------------------------------------------------------------
(* The documents built in a run, read back for the claims below *)

StepsOf(workoutJSON) == workoutJSON.workoutSegments[1].workoutSteps

\* the fields of the line the k-th document was built from
ColsOfBuilt(k) == built[k].cols

IsRepeat(step) == step.type = "RepeatGroupDTO"

\* depth first: a repeat group, then its children
RECURSIVE Flatten(_)
Flatten(steps) ==
    IF steps = <<>> THEN <<>>
    ELSE (IF IsRepeat(Head(steps))
          THEN <<Head(steps)>> \o Head(steps).workoutSteps
          ELSE <<Head(steps)>>) \o Flatten(Tail(steps))

NumSegmentsOf(cols) == ParseIntOrZero(cols[2])
WarmupSecOf(cols) == ParseIntOrZero(cols[3])
CooldownSecOf(cols) == ParseIntOrZero(cols[4])

\* segment s (0-based) has its four fields at the 0-based offsets 4+4s..4+4s+3
\* all in the row
SegmentComplete(cols, s) == 4 + 4 * s + 3 <= Len(cols) - 1

CompleteSegments(cols) ==
    {s \in 0..(NumSegmentsOf(cols) - 1) : SegmentComplete(cols, s)}

DurationSecOf(cols, s) == ParseIntOrZero(cols[4 + 4 * s + 2])
PauseSecOf(cols, s) == ParseIntOrZero(cols[4 + 4 * s + 3])
RepeatsOf(cols, s) == ParseIntOrZero(cols[4 + 4 * s + 4])

HasWarmup(cols) == WarmupSecOf(cols) > 0

\* where the step of complete segment s stands in the top-level sequence
SegmentPosition(cols, s) ==
    (IF HasWarmup(cols) THEN 1 ELSE 0)
    + Cardinality({r \in CompleteSegments(cols) : r < s}) + 1

----------------------------------------------------------------------------
(* C1: step ids and orders *)

Numbered(flat) ==
    \A j \in 1..Len(flat) : flat[j].stepId = j /\ flat[j].stepOrder = j

GroupsLinked(steps) ==
    \A j \in 1..Len(steps) :
        IsRepeat(steps[j]) =>
            /\ Len(steps[j].workoutSteps) = 2
            /\ steps[j].workoutSteps[1].stepType.stepTypeKey = "interval"
            /\ steps[j].workoutSteps[2].stepType.stepTypeKey = "recovery"
            /\ steps[j].workoutSteps[1].stepId = steps[j].stepId + 1
            /\ steps[j].workoutSteps[2].stepId = steps[j].stepId + 2
            /\ steps[j].childStepId = steps[j].stepId + 1

\* C1: in every document, whatever rows came before it, the depth-first walk of
\* the step tree meets stepId 1,2,...,n and stepOrder 1,2,...,n; a repeat group
\* with id g has its interval child at g+1, its recovery child at g+2 and
\* childStepId g+1.
StepNumbering ==
    \A k \in 1..Len(built) :
        /\ Numbered(Flatten(StepsOf(built[k].workoutJSON)))
        /\ GroupsLinked(StepsOf(built[k].workoutJSON))

\* a second document of a file, with a warmup before a repeat group
StepNumberingWitness ==
    /\ Len(built) >= 2
    /\ \E j \in 1..Len(StepsOf(built[2].workoutJSON)) :
          /\ IsRepeat(StepsOf(built[2].workoutJSON)[j])
          /\ StepsOf(built[2].workoutJSON)[j].stepId > 1
    /\ \E j \in 1..Len(StepsOf(built[1].workoutJSON)) :
          IsRepeat(StepsOf(built[1].workoutJSON)[j])

----------------------------------------------------------------------------
(* C2: the top-level step sequence *)

SegmentStepShape(step, repeats) ==
    IF repeats > 0
    THEN /\ IsRepeat(step)
         /\ step.stepType.stepTypeKey = "repeat"
         /\ step.numberOfIterations = repeats
         /\ Len(step.workoutSteps) = 2
         /\ step.workoutSteps[1].stepType.stepTypeKey = "interval"
         /\ step.workoutSteps[2].stepType.stepTypeKey = "recovery"
    ELSE /\ ~IsRepeat(step)
         /\ step.stepType.stepTypeKey = "interval"

TopLevelShape(cols, steps) ==
    /\ Len(steps) = (IF HasWarmup(cols) THEN 1 ELSE 0)
                    + Cardinality(CompleteSegments(cols)) + 1
    /\ \A j \in 1..Len(steps) :
          steps[j].stepType.stepTypeKey = "warmup" <=> (j = 1 /\ HasWarmup(cols))
    /\ \A s \in CompleteSegments(cols) :
          SegmentStepShape(steps[SegmentPosition(cols, s)], RepeatsOf(cols, s))
    /\ \A j \in 1..Len(steps) :
          steps[j].stepType.stepTypeKey = "cooldown" <=> j = Len(steps)

\* C2: the top-level steps of a document are a warmup first iff warmupSec > 0,
\* then one step per segment whose four fields all exist, in segment order (a
\* repeat group of `repeats` iterations with an interval and a recovery child
\* when repeats > 0, else one interval step), then exactly one cooldown, last.
TopLevelSequence ==
    \A k \in 1..Len(built) :
        TopLevelShape(ColsOfBuilt(k), StepsOf(built[k].workoutJSON))

\* a row that announces more segments than it holds, with a warmup, a steady
\* step and a repeat group
TopLevelSequenceWitness ==
    \E k \in 1..Len(built) :
        /\ HasWarmup(ColsOfBuilt(k))
        /\ NumSegmentsOf(ColsOfBuilt(k)) = 3
        /\ CompleteSegments(ColsOfBuilt(k)) = {0, 1}
        /\ RepeatsOf(ColsOfBuilt(k), 0) = 0
        /\ RepeatsOf(ColsOfBuilt(k), 1) > 0
        /\ Len(StepsOf(built[k].workoutJSON)) = 4

----------------------------------------------------------------------------
(* C3: the estimated duration *)

TimedSecs(step) ==
    IF step.endCondition.conditionTypeId = 2 THEN step.endConditionValue ELSE 0

PlannedSecs(step) ==
    IF IsRepeat(step)
    THEN step.numberOfIterations
         * (TimedSecs(step.workoutSteps[1]) + TimedSecs(step.workoutSteps[2]))
    ELSE TimedSecs(step)

RECURSIVE SumPlanned(_)
SumPlanned(steps) ==
    IF steps = <<>> THEN 0 ELSE PlannedSecs(Head(steps)) + SumPlanned(Tail(steps))

\* C3: estimatedDurationInSecs is the planned time of the document's steps: a
\* time-ended step counts its value, a lap-button-ended step counts 0, a repeat
\* group counts iterations x (interval + recovery).
EstimateIsPlannedTime ==
    \A k \in 1..Len(built) :
        built[k].workoutJSON.estimatedDurationInSecs
            = SumPlanned(StepsOf(built[k].workoutJSON))

----------------------------------------------------------------------------
(* C4: zero seconds select the lap button *)

EndsAsClaimed(step, secs) ==
    /\ secs > 0 => /\ step.endCondition.conditionTypeId = 2
                   /\ step.endConditionValue = secs
    /\ secs = 0 => /\ step.endCondition.conditionTypeId = 1
                   /\ step.endConditionValue = 0

LapOnZero(cols, steps) ==
    /\ \A s \in CompleteSegments(cols) :
          RepeatsOf(cols, s) > 0 =>
              EndsAsClaimed(steps[SegmentPosition(cols, s)].workoutSteps[2],
                            PauseSecOf(cols, s))
    /\ EndsAsClaimed(steps[Len(steps)], CooldownSecOf(cols))

\* C4: the recovery child of a repeat group ends on time pauseSec when
\* pauseSec > 0 and on the lap button with value 0 when pauseSec = 0; the
\* cooldown step likewise with cooldownSec.
LapButtonOnZero ==
    \A k \in 1..Len(built) :
        LapOnZero(ColsOfBuilt(k), StepsOf(built[k].workoutJSON))

\* one document with a lap-button recovery and a lap-button cooldown, after one
\* with a timed recovery
LapButtonOnZeroWitness ==
    /\ Len(built) >= 2
    /\ \E s \in CompleteSegments(ColsOfBuilt(1)) :
          RepeatsOf(ColsOfBuilt(1), s) > 0 /\ PauseSecOf(ColsOfBuilt(1), s) > 0
    /\ CooldownSecOf(ColsOfBuilt(1)) = 0
    /\ \E s \in CompleteSegments(ColsOfBuilt(2)) :
          RepeatsOf(ColsOfBuilt(2), s) > 0 /\ PauseSecOf(ColsOfBuilt(2), s) = 0

----------------------------------------------------------------------------
(* C6: per-row isolation *)

\* the 0-based indices of the data lines
DataLines == startIndex..(Len(lines) - 1)

HasFourFields(j) == Len(parseCSVLine(lines[j + 1])) >= 4

TimesIn(log, j) == Cardinality({k \in 1..Len(log) : log[k].line = j})

InInputOrder(log) ==
    \A k \in 1..Len(log), m \in 1..Len(log) : k < m => log[k].line < log[m].line

TokenAbsent(csrfToken) == csrfToken \in {Null, ""}

TokenAlwaysFound == \A k \in 1..Len(lookups) : ~TokenAbsent(lookups[k].csrfToken)

Ended == pc \in {"done", "returned", "rejected"}

\* each data line with four fields or more gave one document, posted once; the
\* others gave none
OnePerDataLine ==
    /\ \A j \in DataLines :
          /\ TimesIn(built, j) = (IF HasFourFields(j) THEN 1 ELSE 0)
          /\ TimesIn(requests, j) = (IF HasFourFields(j) THEN 1 ELSE 0)
    /\ Len(requests) = Len(built)
    /\ \A k \in 1..Len(built) :
          /\ built[k].line \in DataLines
          /\ requests[k].line = built[k].line
          /\ requests[k].body = built[k].workoutJSON

\* C6: with the token found at every lookup, a run that has ended has built one
\* document, and posted it once, for each data line with at least 4 fields, in
\* input order, and none for the other lines, whatever rows were skipped and
\* however the earlier posts ended; and while a post or its delay is still
\* running, the document posted is the last one built.
PerRowIsolation ==
    /\ InInputOrder(built)
    /\ InInputOrder(requests)
    /\ (Ended /\ TokenAlwaysFound) => OnePerDataLine
    /\ pc \in {"fetching", "sleeping"} =>
          /\ Len(requests) = Len(built)
          /\ lastFetch.delayed = FALSE
          /\ pc = "fetching" <=> lastFetch.outcome = "pending"
    /\ (pc = "loop" /\ requests # <<>>) =>
          /\ lastFetch.outcome \in {"ok", "server error", "threw"}
          /\ lastFetch.delayed

\* a run that ended after a row with a non-numeric field, a skipped row and a
\* last row, the last post having thrown
PerRowIsolationWitness ==
    /\ pc = "done"
    /\ TokenAlwaysFound
    /\ lines = <<RowLineB, ShortLine, RowLineA>>
    /\ Len(built) = 2
    /\ skipped = {1}
    /\ lastFetch.outcome = "threw"

----------------------------------------------------------------------------
(* C7: a missing token *)

\* C7: no POST is issued for a row whose token lookup gave nothing, and that
\* lookup is the last thing the run does: the function has returned, no later
\* lookup, document or POST follows.
MissingTokenStops ==
    /\ \A k \in 1..Len(requests) : ~TokenAbsent(requests[k].csrfToken)
    /\ \A k \in 1..Len(lookups) :
          TokenAbsent(lookups[k].csrfToken) =>
              /\ pc = "returned"
              /\ k = Len(lookups)
              /\ TimesIn(requests, lookups[k].line) = 0
              /\ \A m \in 1..Len(built) : built[m].line <= lookups[k].line
              /\ \A m \in 1..Len(requests) : requests[m].line < lookups[k].line

\* the token is missing at the second of three data rows, after a first POST
MissingTokenStopsWitness ==
    /\ lines = <<RowLineA, RowLineB, RowLineA>>
    /\ Len(lookups) = 2
    /\ TokenAbsent(lookups[2].csrfToken)
    /\ Len(requests) = 1
    /\ Len(built) = 2

----------------------------------------------------------------------------
(* C8: header row, marker row, start index and sport mode *)

FirstHolds(cols, word) == StrIncludes(ToLowerCase(cols[1]), word)

FirstFieldHolds(line, word) == FirstHolds(parseCSVLine(line), word)

SomeIs(cols, words) == \E k \in 1..Len(cols) : ToLowerCase(cols[k]) \in words

SomeFieldIs(line, words) == SomeIs(parseCSVLine(line), words)

wName == <<"n","a","m","e">>
wBike == <<"b","i","k","e">>
wSegments == <<"s","e","g","m","e","n","t","s">>
wAbschnitte == <<"a","b","s","c","h","n","i","t","t","e">>

\* the statement, given which words make the first line a header
PlanReaderWith(headerWords) ==
    (pc # "start" /\ lines # <<>>) =>
        \E h \in {IF FirstFieldHolds(lines[1], wName) /\ SomeFieldIs(lines[1], headerWords)
                  THEN 1 ELSE 0} :
        \E m \in {IF h < Len(lines) /\ FirstFieldHolds(lines[h + 1], wBike)
                  THEN 1 ELSE 0} :
            /\ startIndex = h + m
            /\ isBikeWorkout = (m = 1)
            /\ \A k \in 1..Len(built) :
                  /\ built[k].line >= startIndex
                  /\ built[k].workoutJSON.sportType.sportTypeKey
                         = (IF m = 1 THEN "cycling" ELSE "running")
                  /\ built[k].workoutJSON.sportType.sportTypeId
                         = (IF m = 1 THEN 2 ELSE 1)
            /\ \A j \in skipped : j >= startIndex
            /\ (pc = "done" /\ TokenAlwaysFound) =>
                  {built[k].line : k \in 1..Len(built)} \cup skipped = DataLines

NonEmptyTrimmed ==
    \A k \in 1..Len(lines) : lines[k] # <<>> /\ Trim(lines[k]) = lines[k]

\* C8 as stated: a first line whose first field holds "name" and one of whose
\* fields is "segments" or "abschnitte" is a header; a marker line whose first
\* field holds "bike" follows or not; the start index and the sport mode of
\* every document follow from the two, and the data rows are the non-empty
\* lines from the start index on.
PlanReaderAsStated ==
    PlanReaderWith({wSegments, wAbschnitte}) /\ NonEmptyTrimmed

\* C8 as amended: the same, but only a field equal to "abschnitte" makes the
\* first line a header.
PlanReaderHeaderAbschnitte ==
    PlanReaderWith({wAbschnitte}) /\ NonEmptyTrimmed

\* header, marker, then a row built in cycling mode from index 2
PlanReaderWitness ==
    /\ pc = "done"
    /\ lines = <<HeaderLineDE, MarkerLine, RowLineA>>
    /\ startIndex = 2
    /\ Len(built) = 1
    /\ built[1].workoutJSON.sportType.sportTypeKey = "cycling"

----------------------------------------------------------------------------
(* C10: end conditions *)

TimedPositiveOrLapZero(step) ==
    \/ step.endCondition.conditionTypeId = 2 /\ step.endConditionValue > 0
    \/ step.endCondition.conditionTypeId = 1 /\ step.endConditionValue = 0

\* the executable steps of the given kinds, in a flattened tree
AllEndProperly(flat, kinds) ==
    \A j \in 1..Len(flat) :
        (~IsRepeat(flat[j]) /\ flat[j].stepType.stepTypeKey \in kinds)
            => TimedPositiveOrLapZero(flat[j])

\* C10 as stated: every executable step of every document ends on time with a
\* value above 0 or on the lap button with value 0.
EveryStepTimedPositiveOrLap ==
    \A k \in 1..Len(built) :
        AllEndProperly(Flatten(StepsOf(built[k].workoutJSON)),
                       {"warmup", "interval", "recovery", "cooldown"})

\* the interval-kind step of complete segment s: the steady step, or child 1
IntervalStepOf(cols, steps, s) ==
    IF RepeatsOf(cols, s) > 0
    THEN steps[SegmentPosition(cols, s)].workoutSteps[1]
    ELSE steps[SegmentPosition(cols, s)]

EndConditionsOf(cols, steps) ==
    /\ AllEndProperly(Flatten(steps), {"warmup", "recovery", "cooldown"})
    /\ \A s \in CompleteSegments(cols) :
          /\ IntervalStepOf(cols, steps, s).stepType.stepTypeKey = "interval"
          /\ IntervalStepOf(cols, steps, s).endCondition.conditionTypeId = 2
          /\ IntervalStepOf(cols, steps, s).endConditionValue = DurationSecOf(cols, s)

\* C10 as amended: warmup, recovery and cooldown steps end on time with a value
\* above 0 or on the lap button with value 0; an interval-kind step (steady
\* step, interval child) always ends on time, with the parsed durationSec as
\* its value, which is 0 or less when the field is 0, negative or not a number.
EndConditionsByKind ==
    \A k \in 1..Len(built) :
        EndConditionsOf(ColsOfBuilt(k), StepsOf(built[k].workoutJSON))

\* a document with a time-ended interval step of value 0 from a non-numeric
\* duration, a lap-button recovery and a lap-button cooldown
EndConditionsWitness ==
    \E k \in 1..Len(built) :
        /\ 0 \in CompleteSegments(ColsOfBuilt(k))
        /\ RepeatsOf(ColsOfBuilt(k), 0) > 0
        /\ ColsOfBuilt(k)[6] = <<"x">>
        /\ IntervalStepOf(ColsOfBuilt(k), StepsOf(built[k].workoutJSON), 0).endConditionValue = 0
        /\ PauseSecOf(ColsOfBuilt(k), 0) = 0
        /\ CooldownSecOf(ColsOfBuilt(k)) <= 0

----------------------------------------------------------------------------
(* C11: input texts without data rows *)

IsHeaderLine(line) == FirstFieldHolds(line, wName) /\ SomeFieldIs(line, {wAbschnitte})

IsMarkerLine(line) == FirstFieldHolds(line, wBike)

\* no non-empty line, only a header line, only a marker line, or a header line
\* followed by a marker line
NoDataRows ==
    \/ lines = <<>>
    \/ Len(lines) = 1 /\ (IsHeaderLine(lines[1]) \/ IsMarkerLine(lines[1]))
    \/ Len(lines) = 2 /\ IsHeaderLine(lines[1]) /\ IsMarkerLine(lines[2])

\* C11: once the lines of a text without data rows have been read, the run
\* never ends by a thrown exception or a rejected promise, and no document is
\* built or posted.
NoDataRowsEndQuietly ==
    (pc # "start" /\ NoDataRows) =>
        /\ pc # "rejected"
        /\ built = <<>>
        /\ requests = <<>>
        /\ lookups = <<>>

====
